---- MODULE Spec2Model ----
(***************************************************************************)
(* Model of the Sudoku engine of go-sudoku-retro: the Board (game/sudoku.go)*)
(* and the Generator (game/generator.go).                                  *)
(*                                                                         *)
(* SpecBoard drives the Board operations with integer arguments drawn from *)
(* a range that reaches past the grid on both sides.                       *)
(* SpecGen drives one Generator: construction from a seed, then the public *)
(* generation calls; the backtracking search runs one step per action.     *)
(***************************************************************************)
EXTENDS Integers, Sequences, FiniteSets, TLC

(* ----------------------------- constants ------------------------------- *)

\* side of the grid: Board [9][9]int
N == 9
\* side of a box: (row / 3) * 3
BoxSize == 3
\* largest cell value accepted by isValidValue
MaxValue == 9
\* totalCells := 81
TotalCells == 81

\* how far the integer arguments of the Board operations reach past the
\* valid ranges, on both sides
Margin == 1
\* seeds given to NewGeneratorWithSeed: 0..MaxSeed
MaxSeed == 7
\* number of public generation calls made on one Generator
MaxCalls == 1
\* key presses the terminal game reads
MaxKeys == 6

\* seeds of the generators behind the boards the callers and the user
\* interfaces work on: 0..MaxGameSeed
MaxGameSeed == 0
\* ratios given to GeneratePuzzleWithEmptyRatio: k / RatioDen
RatioDen == 4
\* ratios given to GetDifficultyFromEmptyRatio: k / RatioScale
RatioScale == 100

Idx == 0..(N - 1)
Coord == (0 - Margin)..(N - 1 + Margin)
Values == (0 - Margin)..(MaxValue + Margin)

\* Go's integer division truncates toward zero
GoDiv(a, b) == IF a >= 0 THEN a \div b ELSE 0 - ((0 - a) \div b)

(* ------------------------------- Board --------------------------------- *)

\* a [9][9]int literal, written row by row, as the array it denotes
Grid(rows) == [i \in Idx |-> [j \in Idx |-> rows[i + 1][j + 1]]]

\* the zero value of Sudoku: every cell 0
NewSudoku == [i \in Idx |-> [j \in Idx |-> 0]]

NewSudokuWithPuzzle(puzzle) == puzzle

GetSamplePuzzle ==
  Grid(<< <<5, 3, 0, 0, 7, 0, 0, 0, 0>>,
          <<6, 0, 0, 1, 9, 5, 0, 0, 0>>,
          <<0, 9, 8, 0, 0, 0, 0, 6, 0>>,
          <<8, 0, 0, 0, 6, 0, 0, 0, 3>>,
          <<4, 0, 0, 8, 0, 3, 0, 0, 1>>,
          <<7, 0, 0, 0, 2, 0, 0, 0, 6>>,
          <<0, 6, 0, 0, 0, 0, 2, 8, 0>>,
          <<0, 0, 0, 4, 1, 9, 0, 0, 5>>,
          <<0, 0, 0, 0, 8, 0, 0, 7, 9>> >>)

GetSampleSolutionTypo ==
  Grid(<< <<5, 3, 4, 6, 7, 8, 9, 1, 2>>,
          <<6, 7, 2, 1, 9, 5, 3, 4, 8>>,
          <<1, 9, 8, 3, 4, 2, 5, 6, 7>>,
          <<8, 5, 9, 7, 6, 1, 4, 2, 3>>,
          <<4, 2, 6, 8, 5, 3, 7, 9, 1>>,
          <<7, 1, 3, 9, 2, 4, 8, 5, 6>>,
          <<9, 6, 1, 5, 3, 7, 2, 8, 4>>,
          <<2, 8, 7, 4, 1, 9, 6, 3, 5>>,
          <<3, 4, 5, 2, 6, 8, 1, 7, 9>> >>)

GetSampleSolution ==
  Grid(<< <<5, 3, 4, 6, 7, 8, 9, 1, 2>>,
          <<6, 7, 2, 1, 9, 5, 3, 4, 8>>,
          <<1, 9, 8, 3, 4, 2, 5, 6, 7>>,
          <<8, 5, 9, 7, 6, 1, 4, 2, 3>>,
          <<4, 2, 6, 8, 5, 3, 7, 9, 1>>,
          <<7, 1, 3, 9, 2, 4, 8, 5, 6>>,
          <<9, 6, 1, 5, 3, 7, 2, 8, 4>>,
          <<2, 8, 7, 4, 1, 9, 6, 3, 5>>,
          <<3, 4, 5, 2, 8, 6, 1, 7, 9>> >>)

\* the run-time index check of the [9][9]int array: an index outside it
\* panics
InGrid(row, col) == row \in Idx /\ col \in Idx

\* the outcome of one Board operation: the grid after it, the value it
\* returns, and whether it indexed the array outside its bounds
Outcome(b, r) == [Board |-> b, ret |-> r, panic |-> FALSE]
IndexPanic(b) == [Board |-> b, ret |-> "panic", panic |-> TRUE]

isValidPositionOffByOne(row, col) == row >= 0 /\ row <= N /\ col >= 0 /\ col < N

isValidPosition(row, col) == row >= 0 /\ row < N /\ col >= 0 /\ col < N

isValidValueOffByOne(value) == value >= 0 /\ value <= MaxValue + 1

isValidValue(value) == value >= 0 /\ value <= MaxValue

isValidPlacementCountsSelf(b, row, col, value) ==
  IF value = 0 THEN TRUE
  ELSE LET boxRow == GoDiv(row, BoxSize) * BoxSize
           boxCol == GoDiv(col, BoxSize) * BoxSize
       IN /\ ~ \E j \in Idx : b[row][j] = value
          /\ ~ \E i \in Idx : b[i][col] = value
          /\ ~ \E i \in boxRow..(boxRow + BoxSize - 1) :
                 \E j \in boxCol..(boxCol + BoxSize - 1) : b[i][j] = value

isValidPlacementNoBox(b, row, col, value) ==
  IF value = 0 THEN TRUE
  ELSE /\ ~ \E j \in Idx : j # col /\ b[row][j] = value
       /\ ~ \E i \in Idx : i # row /\ b[i][col] = value

isValidPlacement(b, row, col, value) ==
  IF value = 0 THEN TRUE
  ELSE LET boxRow == GoDiv(row, BoxSize) * BoxSize
           boxCol == GoDiv(col, BoxSize) * BoxSize
       IN /\ ~ \E j \in Idx : j # col /\ b[row][j] = value
          /\ ~ \E i \in Idx : i # row /\ b[i][col] = value
          /\ ~ \E i \in boxRow..(boxRow + BoxSize - 1) :
                 \E j \in boxCol..(boxCol + BoxSize - 1) :
                    (i # row \/ j # col) /\ b[i][j] = value

SetCellWriteFirst(b, row, col, value) ==
  IF ~isValidPosition(row, col) THEN Outcome(b, FALSE)
  ELSE IF ~InGrid(row, col) THEN IndexPanic(b)
  ELSE Outcome([b EXCEPT ![row][col] = value], isValidValue(value))

SetCell(b, row, col, value) ==
  IF ~isValidPosition(row, col) \/ ~isValidValue(value) THEN Outcome(b, FALSE)
  ELSE IF ~InGrid(row, col) THEN IndexPanic(b)
  ELSE Outcome([b EXCEPT ![row][col] = value], TRUE)

GetCellTransposed(b, row, col) ==
  IF ~isValidPosition(row, col) THEN Outcome(b, -1)
  ELSE IF ~InGrid(row, col) THEN IndexPanic(b)
  ELSE Outcome(b, b[col][row])

GetCell(b, row, col) ==
  IF ~isValidPosition(row, col) THEN Outcome(b, -1)
  ELSE IF ~InGrid(row, col) THEN IndexPanic(b)
  ELSE Outcome(b, b[row][col])

ClearCellTransposed(b, row, col) ==
  IF ~isValidPosition(row, col) THEN Outcome(b, FALSE)
  ELSE IF ~InGrid(row, col) THEN IndexPanic(b)
  ELSE Outcome([b EXCEPT ![col][row] = 0], TRUE)

ClearCell(b, row, col) ==
  IF ~isValidPosition(row, col) THEN Outcome(b, FALSE)
  ELSE IF ~InGrid(row, col) THEN IndexPanic(b)
  ELSE Outcome([b EXCEPT ![row][col] = 0], TRUE)

IsEmpty(b, row, col) ==
  LET got == GetCell(b, row, col)
  IN IF got.panic THEN got ELSE Outcome(got.Board, got.ret = 0)

IsValidMoveNoRestore(b, row, col, value) ==
  IF ~isValidPosition(row, col) \/ ~isValidValue(value) THEN Outcome(b, FALSE)
  ELSE IF ~InGrid(row, col) THEN IndexPanic(b)
  ELSE LET placed == [b EXCEPT ![row][col] = value]
       IN Outcome(placed, isValidPlacement(placed, row, col, value))

IsValidMove(b, row, col, value) ==
  IF ~isValidPosition(row, col) \/ ~isValidValue(value) THEN Outcome(b, FALSE)
  ELSE IF ~InGrid(row, col) THEN IndexPanic(b)
  ELSE LET original == b[row][col]
           placed == [b EXCEPT ![row][col] = value]
           valid == isValidPlacement(placed, row, col, value)
           restored == [placed EXCEPT ![row][col] = original]
       IN Outcome(restored, valid)

IsValid(b) ==
  \A i \in Idx : \A j \in Idx :
     b[i][j] # 0 => isValidPlacement(b, i, j, b[i][j])

IsCompleteFilledOnly(b) ==
  \A i \in Idx : \A j \in Idx : b[i][j] # 0

IsComplete(b) ==
  /\ \A i \in Idx : \A j \in Idx : b[i][j] # 0
  /\ IsValid(b)

\* 0, 1, .., 8 in loop order
Indices == [k \in 1..N |-> k - 1]

GetRowConflictsValues(b, row, col) ==
  IF ~isValidPosition(row, col) THEN Outcome(b, <<>>)
  ELSE IF ~InGrid(row, col) THEN IndexPanic(b)
  ELSE LET value == b[row][col]
           clash(j) == j # col /\ b[row][j] = value
       IN IF value = 0 THEN Outcome(b, <<>>)
          ELSE Outcome(b, [k \in 1..Len(SelectSeq(Indices, clash)) |-> value])

GetRowConflicts(b, row, col) ==
  IF ~isValidPosition(row, col) THEN Outcome(b, <<>>)
  ELSE IF ~InGrid(row, col) THEN IndexPanic(b)
  ELSE LET value == b[row][col]
           clash(j) == j # col /\ b[row][j] = value
       IN IF value = 0 THEN Outcome(b, <<>>)
          ELSE Outcome(b, SelectSeq(Indices, clash))

GetColConflicts(b, row, col) ==
  IF ~isValidPosition(row, col) THEN Outcome(b, <<>>)
  ELSE IF ~InGrid(row, col) THEN IndexPanic(b)
  ELSE LET value == b[row][col]
           clash(i) == i # row /\ b[i][col] = value
       IN IF value = 0 THEN Outcome(b, <<>>)
          ELSE Outcome(b, SelectSeq(Indices, clash))

GetBoxConflicts(b, row, col) ==
  IF ~isValidPosition(row, col) THEN Outcome(b, <<>>)
  ELSE IF ~InGrid(row, col) THEN IndexPanic(b)
  ELSE LET value == b[row][col]
           boxRow == GoDiv(row, BoxSize) * BoxSize
           boxCol == GoDiv(col, BoxSize) * BoxSize
           \* the 9 cells of the box in loop order
           cells == [k \in 1..(BoxSize * BoxSize) |->
                       <<boxRow + ((k - 1) \div BoxSize),
                         boxCol + ((k - 1) % BoxSize)>>]
           clash(p) == (p[1] # row \/ p[2] # col) /\ b[p[1]][p[2]] = value
       IN IF value = 0 THEN Outcome(b, <<>>)
          ELSE Outcome(b, SelectSeq(cells, clash))

(* ----------------------------- Generator ------------------------------- *)

\* Difficulty: Easy, Medium, Hard, Expert = iota
Easy == 0
Medium == 1
Hard == 2
Expert == 3
Difficulties == {Easy, Medium, Hard, Expert}

\* math/rand is not part of the repository.  The source is modelled as a
\* seeded linear congruential generator: its state is one integer, a seed
\* fixes the whole stream, and Intn(n) advances the state and returns a
\* value in 0..n-1.
NewSource(seed) == seed % 65537
Intn(r, n) ==
  LET s == (75 * r + 74) % 65537
  IN [val |-> s % n, rng |-> s]

NewGeneratorWithSeed(seed) == NewSource(seed)

\* the loop shared by getRandomNumbers and shufflePositions:
\*   for i := len - 1; i > 0; i-- { j := rand.Intn(i + 1); swap(i, j) }
\* items is 1-based here, so index i of the slice is items[i + 1]; the
\* loop is not entered on a slice shorter than 2, and reading Len(items)
\* makes TLC evaluate each swap before the next iteration
RECURSIVE fisherYates(_, _, _)
fisherYates(items, i, r) ==
  IF Len(items) < 2 \/ i <= 0 THEN [items |-> items, rng |-> r]
  ELSE LET d == Intn(r, i + 1)
           swapped == [items EXCEPT ![i + 1] = items[d.val + 1],
                                    ![d.val + 1] = items[i + 1]]
       IN fisherYates(swapped, i - 1, d.rng)

getRandomNumbers(r) == fisherYates(<<1, 2, 3, 4, 5, 6, 7, 8, 9>>, 8, r)

shufflePositions(positions, r) ==
  fisherYates(positions, Len(positions) - 1, r)

\* the first empty cell in row-major order, or <<-1, -1>>
findEmptyCell(b) ==
  LET empties == {k \in 0..(N * N - 1) :
                    IsEmpty(b, k \div N, k % N).ret}
  IN IF empties = {} THEN <<-1, -1>>
     ELSE LET k == CHOOSE e \in empties : \A o \in empties : e <= o
          IN <<k \div N, k % N>>

RECURSIVE removeLoopOffByOne(_, _, _, _, _)
removeLoopOffByOne(puzzle, positions, k, removed, cellsToRemove) ==
  IF k > Len(positions) \/ removed > cellsToRemove THEN puzzle
  ELSE LET row == positions[k][1]
           col == positions[k][2]
       IN IF ~IsEmpty(puzzle, row, col).ret
          THEN removeLoopOffByOne(ClearCell(puzzle, row, col).Board,
                                  positions, k + 1, removed + 1,
                                  cellsToRemove)
          ELSE removeLoopOffByOne(puzzle, positions, k + 1, removed,
                                  cellsToRemove)

RECURSIVE removeLoopCountsEmpty(_, _, _, _, _)
removeLoopCountsEmpty(puzzle, positions, k, removed, cellsToRemove) ==
  IF k > Len(positions) \/ removed >= cellsToRemove THEN puzzle
  ELSE LET row == positions[k][1]
           col == positions[k][2]
       IN IF ~IsEmpty(puzzle, row, col).ret
          THEN removeLoopCountsEmpty(ClearCell(puzzle, row, col).Board,
                                     positions, k + 1, removed + 1,
                                     cellsToRemove)
          ELSE removeLoopCountsEmpty(puzzle, positions, k + 1, removed + 1,
                                     cellsToRemove)

\* the removal loop of removeCells over positions[k..]
RECURSIVE removeLoop(_, _, _, _, _)
removeLoop(puzzle, positions, k, removed, cellsToRemove) ==
  IF k > Len(positions) \/ removed >= cellsToRemove THEN puzzle
  ELSE LET row == positions[k][1]
           col == positions[k][2]
       IN IF ~IsEmpty(puzzle, row, col).ret
          THEN removeLoop(ClearCell(puzzle, row, col).Board, positions,
                          k + 1, removed + 1, cellsToRemove)
          ELSE removeLoop(puzzle, positions, k + 1, removed, cellsToRemove)

removeCellsTransposed(cmpl, cellsToRemove, r) ==
  LET copy == [i \in Idx |-> [j \in Idx |-> cmpl[j][i]]]
      positions == [k \in 1..(N * N) |-> <<(k - 1) \div N, (k - 1) % N>>]
      shuffled == shufflePositions(positions, r)
  IN [puzzle |-> removeLoop(copy, shuffled.items, 1, 0, cellsToRemove),
      rng |-> shuffled.rng]

removeCells(cmpl, cellsToRemove, r) ==
  LET copy == [i \in Idx |-> [j \in Idx |-> cmpl[i][j]]]
      positions == [k \in 1..(N * N) |-> <<(k - 1) \div N, (k - 1) % N>>]
      shuffled == shufflePositions(positions, r)
  IN [puzzle |-> removeLoop(copy, shuffled.items, 1, 0, cellsToRemove),
      rng |-> shuffled.rng]

createPuzzleClueCounts(cmpl, difficulty, r) ==
  LET draw == CASE difficulty = Easy -> Intn(r, 11)
                [] difficulty = Medium -> Intn(r, 4)
                [] difficulty = Hard -> Intn(r, 4)
                [] difficulty = Expert -> Intn(r, 6)
                [] OTHER -> [val |-> 0, rng |-> r]
      cellsToRemove == CASE difficulty = Easy -> 36 + draw.val
                         [] difficulty = Medium -> 32 + draw.val
                         [] difficulty = Hard -> 28 + draw.val
                         [] difficulty = Expert -> 22 + draw.val
                         [] OTHER -> 40
  IN removeCells(cmpl, cellsToRemove, draw.rng)

createPuzzle(cmpl, difficulty, r) ==
  LET draw == CASE difficulty = Easy -> Intn(r, 11)
                [] difficulty = Medium -> Intn(r, 10)
                [] difficulty = Hard -> Intn(r, 10)
                [] difficulty = Expert -> Intn(r, 10)
                [] OTHER -> [val |-> 0, rng |-> r]
      cellsToRemove == CASE difficulty = Easy -> 35 + draw.val
                         [] difficulty = Medium -> 46 + draw.val
                         [] difficulty = Hard -> 50 + draw.val
                         [] difficulty = Expert -> 54 + draw.val
                         [] OTHER -> 40
  IN removeCells(cmpl, cellsToRemove, draw.rng)

\* emptyRatio is the float64 num / den.  The clamp and int(81 * emptyRatio)
\* are computed on the fraction; int() truncates toward zero, and for
\* den < 40 the float64 product truncates to the same integer as the exact
\* one.
clampedRatio(num, den) ==
  IF num < 0 THEN [num |-> 0, den |-> den]
  ELSE IF num > den THEN [num |-> den, den |-> den]
  ELSE [num |-> num, den |-> den]

cellsToRemoveForRatioRounded(num, den) ==
  LET ratio == clampedRatio(num, den)
  IN GoDiv(2 * TotalCells * ratio.num + ratio.den, 2 * ratio.den)

cellsToRemoveForRatio(num, den) ==
  LET ratio == clampedRatio(num, den)
  IN GoDiv(TotalCells * ratio.num, ratio.den)

CountEmptyCells(b) ==
  Cardinality({k \in 0..(N * N - 1) : IsEmpty(b, k \div N, k % N).ret})

\* emptyRatio is the float64 num / den; it is compared with the literals
\* 0.45, 0.60 and 0.75 as the fractions 45/100, 60/100 and 75/100
GetDifficultyFromEmptyRatioStrict(num, den) ==
  IF 100 * num < 45 * den THEN Easy
  ELSE IF 100 * num < 60 * den THEN Medium
  ELSE IF 100 * num < 75 * den THEN Hard
  ELSE Expert

GetDifficultyFromEmptyRatio(num, den) ==
  IF 100 * num <= 45 * den THEN Easy
  ELSE IF 100 * num <= 60 * den THEN Medium
  ELSE IF 100 * num <= 75 * den THEN Hard
  ELSE Expert

\* float64(emptyCells) / 81.0
GetEmptyRatio(b) == [num |-> CountEmptyCells(b), den |-> TotalCells]

(* ------------------------------- state --------------------------------- *)

VARIABLES
  Board,     \* Sudoku.Board of the board the operations are called on
  args,      \* the integers row, col, value the caller passes
  last,      \* the last call: its name, what it returned, the grid before it
  prev,      \* the call before the last one: its name and what it returned
  panicked,  \* an operation indexed the grid out of range (the process died)
  rng,       \* Generator.rand: the state of the pseudo-random source
  sudoku,    \* the board GenerateComplete builds and fillBoard fills
  stack,     \* the active fillBoard calls that are inside their loop
  pc,        \* where the Generator is
  fillRet,   \* the value the fillBoard call that just returned gave
  api,       \* the public generation call in progress, or the last one made
  complete,  \* the complete board the last puzzle was derived from
  result,    \* the board the last public generation call returned
  calls,     \* number of public generation calls made so far
  heap,      \* the Sudoku objects and arrays a caller holds, by reference
  web,       \* the fields of the WebUI
  term       \* the fields of the TerminalUI

boardVars == <<Board, args, last, prev, panicked>>
genVars == <<rng, sudoku, stack, pc, fillRet, api, complete, result, calls>>
uiVars == <<heap, web, term>>
vars == <<Board, args, last, prev, panicked,
          rng, sudoku, stack, pc, fillRet, api, complete, result, calls,
          heap, web, term>>

\* no object allocated, no user interface started
HeapOff == [store |-> <<>>, complete |-> 0, puzzle |-> 0, array |-> 0,
            built |-> 0]
WebOff == [handler |-> "off"]
TermOff == [keys |-> 0]
UiOff ==
  /\ heap = HeapOff
  /\ web = WebOff
  /\ term = TermOff

(* ------------------------ the Board under calls ------------------------ *)

GenOff ==
  /\ rng = 0
  /\ sudoku = NewSudoku
  /\ stack = <<>>
  /\ pc = "off"
  /\ fillRet = FALSE
  /\ api = [difficulty |-> 0, num |-> 0, den |-> 1, name |-> "none"]
  /\ complete = NewSudoku
  /\ result = NewSudoku
  /\ calls = 0

InitBoard ==
  /\ Board \in {NewSudoku,
                NewSudokuWithPuzzle(GetSamplePuzzle),
                NewSudokuWithPuzzle(GetSampleSolution)}
  /\ args \in [row : Coord, col : Coord, value : Values]
  /\ last = [op |-> "new", ret |-> TRUE, before |-> Board]
  /\ prev = [op |-> "new", ret |-> TRUE]
  /\ panicked = FALSE
  /\ GenOff
  /\ UiOff

\* one call of a Board operation by the owner of the board; a panic ends
\* the process, so nothing is called after it
Call(name, out) ==
  /\ ~panicked
  /\ Board' = out.Board
  /\ last' = [op |-> name, ret |-> out.ret, before |-> Board]
  /\ prev' = [op |-> last.op, ret |-> last.ret]
  /\ panicked' = out.panic
  /\ UNCHANGED args
  /\ UNCHANGED genVars
  /\ UNCHANGED uiVars

CallSetCell == Call("SetCell", SetCell(Board, args.row, args.col, args.value))
CallGetCell == Call("GetCell", GetCell(Board, args.row, args.col))
CallClearCell == Call("ClearCell", ClearCell(Board, args.row, args.col))
CallIsEmpty == Call("IsEmpty", IsEmpty(Board, args.row, args.col))
CallIsValidMove ==
  Call("IsValidMove", IsValidMove(Board, args.row, args.col, args.value))
CallGetRowConflicts ==
  Call("GetRowConflicts", GetRowConflicts(Board, args.row, args.col))
CallGetColConflicts ==
  Call("GetColConflicts", GetColConflicts(Board, args.row, args.col))
CallGetBoxConflicts ==
  Call("GetBoxConflicts", GetBoxConflicts(Board, args.row, args.col))
\* IsValid and IsComplete only read the grid
CallIsValid == Call("IsValid", Outcome(Board, IsValid(Board)))
CallIsComplete == Call("IsComplete", Outcome(Board, IsComplete(Board)))

NextBoard ==
  \/ CallSetCell
  \/ CallGetCell
  \/ CallClearCell
  \/ CallIsEmpty
  \/ CallIsValidMove
  \/ CallGetRowConflicts
  \/ CallGetColConflicts
  \/ CallGetBoxConflicts

SpecBoard == InitBoard /\ [][NextBoard]_vars

\* the whole-board checks, on the boards SetCell and ClearCell make
NextValidity ==
  \/ CallSetCell
  \/ CallClearCell
  \/ CallIsValid
  \/ CallIsComplete

SpecValidity == InitBoard /\ [][NextValidity]_vars

(* ----------------------- the Generator under calls -------------------- *)

Seeds == 0..MaxSeed
RatioNums == (0 - 1)..(RatioDen + 1)

BoardOff ==
  /\ Board = NewSudoku
  /\ args = [row |-> 0, col |-> 0, value |-> 0]
  /\ last = [op |-> "none", ret |-> TRUE, before |-> NewSudoku]
  /\ prev = [op |-> "none", ret |-> TRUE]
  /\ panicked = FALSE

\* NewGenerator seeds the source with the clock, NewGeneratorWithSeed with
\* its argument: either way the Generator starts from some seed
InitGen ==
  /\ \E seed \in Seeds : rng = NewGeneratorWithSeed(seed)
  /\ sudoku = NewSudoku
  /\ stack = <<>>
  /\ pc = "idle"
  /\ fillRet = FALSE
  /\ api = [difficulty |-> Easy, num |-> 0, den |-> 1, name |-> "none"]
  /\ complete = NewSudoku
  /\ result = NewSudoku
  /\ calls = 0
  /\ BoardOff
  /\ UiOff

\* GenerateComplete, entered directly or from one of the puzzle calls:
\* sudoku := NewSudoku(); g.fillBoard(sudoku)
Enter(call) ==
  /\ pc = "idle"
  /\ calls < MaxCalls
  /\ api' = call
  /\ sudoku' = NewSudoku
  /\ stack' = <<>>
  /\ pc' = "enter"
  /\ UNCHANGED <<rng, fillRet, complete, result, calls>>
  /\ UNCHANGED boardVars
  /\ UNCHANGED uiVars

CallGenerateComplete ==
  Enter([difficulty |-> Easy, num |-> 0, den |-> 1,
         name |-> "GenerateComplete"])

CallGeneratePuzzle ==
  \E d \in Difficulties :
     Enter([difficulty |-> d, num |-> 0, den |-> 1,
            name |-> "GeneratePuzzle"])

CallGeneratePuzzleWithEmptyRatio ==
  \E k \in RatioNums :
     Enter([difficulty |-> Easy, num |-> k, den |-> RatioDen,
            name |-> "GeneratePuzzleWithEmptyRatio"])

\* fillBoard is entered: no empty cell returns true, otherwise the call
\* draws its candidate order and starts its loop
FillEnter ==
  /\ pc = "enter"
  /\ LET cell == findEmptyCell(sudoku)
     IN IF cell[1] = -1
        THEN /\ fillRet' = TRUE
             /\ pc' = "ret"
             /\ UNCHANGED <<rng, stack>>
        ELSE LET numbers == getRandomNumbers(rng)
             IN /\ rng' = numbers.rng
                /\ stack' = Append(stack, [row |-> cell[1], col |-> cell[2],
                                           numbers |-> numbers.items,
                                           i |-> 1])
                /\ pc' = "loop"
                /\ UNCHANGED fillRet
  /\ UNCHANGED <<sudoku, api, complete, result, calls>>
  /\ UNCHANGED boardVars
  /\ UNCHANGED uiVars

\* one iteration of `for _, num := range numbers` in the innermost call,
\* up to the recursive call; after the last candidate the call returns
\* false
FillLoop ==
  /\ pc = "loop"
  /\ LET top == stack[Len(stack)]
     IN IF top.i > Len(top.numbers)
        THEN /\ stack' = SubSeq(stack, 1, Len(stack) - 1)
             /\ fillRet' = FALSE
             /\ pc' = "ret"
             /\ UNCHANGED sudoku
        ELSE LET num == top.numbers[top.i]
                 check == IsValidMove(sudoku, top.row, top.col, num)
             IN IF check.ret
                THEN /\ sudoku' = SetCell(check.Board, top.row, top.col,
                                          num).Board
                     /\ pc' = "enter"
                     /\ UNCHANGED <<stack, fillRet>>
                ELSE /\ sudoku' = check.Board
                     /\ stack' = [stack EXCEPT ![Len(stack)].i = top.i + 1]
                     /\ UNCHANGED <<pc, fillRet>>
  /\ UNCHANGED <<rng, api, complete, result, calls>>
  /\ UNCHANGED boardVars
  /\ UNCHANGED uiVars

\* a recursive call returns and the caller goes on without clearing the
\* cell
FillReturnNoClear ==
  /\ pc = "ret"
  /\ stack # <<>>
  /\ LET top == stack[Len(stack)]
     IN IF fillRet
        THEN /\ stack' = SubSeq(stack, 1, Len(stack) - 1)
             /\ UNCHANGED <<sudoku, pc>>
        ELSE /\ UNCHANGED sudoku
             /\ stack' = [stack EXCEPT ![Len(stack)].i = top.i + 1]
             /\ pc' = "loop"
  /\ UNCHANGED <<rng, fillRet, api, complete, result, calls>>
  /\ UNCHANGED boardVars
  /\ UNCHANGED uiVars

\* a recursive fillBoard call returns to the call that made it: true is
\* passed up, false clears the cell and moves on to the next candidate
FillReturn ==
  /\ pc = "ret"
  /\ stack # <<>>
  /\ LET top == stack[Len(stack)]
     IN IF fillRet
        THEN /\ stack' = SubSeq(stack, 1, Len(stack) - 1)
             /\ UNCHANGED <<sudoku, pc>>
        ELSE /\ sudoku' = ClearCell(sudoku, top.row, top.col).Board
             /\ stack' = [stack EXCEPT ![Len(stack)].i = top.i + 1]
             /\ pc' = "loop"
  /\ UNCHANGED <<rng, fillRet, api, complete, result, calls>>
  /\ UNCHANGED boardVars
  /\ UNCHANGED uiVars

\* the outermost fillBoard call has returned to GenerateComplete, which
\* returns sudoku without looking at fillBoard's result
ReturnGenerateComplete ==
  /\ pc = "ret"
  /\ stack = <<>>
  /\ api.name = "GenerateComplete"
  /\ result' = sudoku
  /\ pc' = "idle"
  /\ calls' = calls + 1
  /\ UNCHANGED <<rng, sudoku, stack, fillRet, api, complete>>
  /\ UNCHANGED boardVars
  /\ UNCHANGED uiVars

ReturnGeneratePuzzle ==
  /\ pc = "ret"
  /\ stack = <<>>
  /\ api.name = "GeneratePuzzle"
  /\ LET made == createPuzzle(sudoku, api.difficulty, rng)
     IN /\ complete' = sudoku
        /\ result' = made.puzzle
        /\ rng' = made.rng
  /\ pc' = "idle"
  /\ calls' = calls + 1
  /\ UNCHANGED <<sudoku, stack, fillRet, api>>
  /\ UNCHANGED boardVars
  /\ UNCHANGED uiVars

ReturnGeneratePuzzleWithEmptyRatio ==
  /\ pc = "ret"
  /\ stack = <<>>
  /\ api.name = "GeneratePuzzleWithEmptyRatio"
  /\ LET made == removeCells(sudoku,
                             cellsToRemoveForRatio(api.num, api.den), rng)
     IN /\ complete' = sudoku
        /\ result' = made.puzzle
        /\ rng' = made.rng
  /\ pc' = "idle"
  /\ calls' = calls + 1
  /\ UNCHANGED <<sudoku, stack, fillRet, api>>
  /\ UNCHANGED boardVars
  /\ UNCHANGED uiVars

NextGen ==
  \/ CallGenerateComplete
  \/ CallGeneratePuzzle
  \/ CallGeneratePuzzleWithEmptyRatio
  \/ FillEnter
  \/ FillLoop
  \/ FillReturn
  \/ ReturnGenerateComplete
  \/ ReturnGeneratePuzzle
  \/ ReturnGeneratePuzzleWithEmptyRatio

SpecGen == InitGen /\ [][NextGen]_vars

\* fillBoard is a plain recursive call that runs to its return: once
\* entered, its steps keep being taken
NextFill ==
  \/ CallGenerateComplete
  \/ FillEnter
  \/ FillLoop
  \/ FillReturn
  \/ ReturnGenerateComplete

SpecFill ==
  /\ InitGen
  /\ [][NextFill]_vars
  /\ WF_vars(FillEnter \/ FillLoop \/ FillReturn)

(* ------------------------ the utility functions ------------------------ *)

\* the sample solution after ClearCell on its first e cells in row-major
\* order
ClearedPrefix(e) ==
  [i \in Idx |-> [j \in Idx |->
     IF i * N + j < e THEN 0 ELSE GetSampleSolution[i][j]]]

RatioPercents == (0 - 1)..(RatioScale + 1)
RemoveCounts == (0 - Margin)..(TotalCells + Margin)

InitClassify ==
  /\ Board \in {ClearedPrefix(e) : e \in 0..TotalCells}
  /\ args = [row |-> 0, col |-> 0, value |-> 0]
  /\ last = [op |-> "none", ret |-> TRUE, before |-> NewSudoku]
  /\ prev = [op |-> "none", ret |-> TRUE]
  /\ panicked = FALSE
  /\ GenOff
  /\ UiOff

\* GetDifficultyFromEmptyRatio(GetEmptyRatio(board))
CallGetEmptyRatio ==
  /\ LET ratio == GetEmptyRatio(Board)
     IN api' = [difficulty |-> GetDifficultyFromEmptyRatio(ratio.num,
                                                           ratio.den),
                num |-> ratio.num, den |-> ratio.den,
                name |-> "GetEmptyRatio"]
  /\ UNCHANGED boardVars
  /\ UNCHANGED uiVars
  /\ UNCHANGED <<rng, sudoku, stack, pc, fillRet, complete, result, calls>>

CallGetDifficultyFromEmptyRatio ==
  /\ \E k \in RatioPercents :
        api' = [difficulty |-> GetDifficultyFromEmptyRatio(k, RatioScale),
                num |-> k, den |-> RatioScale,
                name |-> "GetDifficultyFromEmptyRatio"]
  /\ UNCHANGED boardVars
  /\ UNCHANGED uiVars
  /\ UNCHANGED <<rng, sudoku, stack, pc, fillRet, complete, result, calls>>

NextClassify ==
  \/ CallGetEmptyRatio
  \/ CallGetDifficultyFromEmptyRatio

SpecClassify == InitClassify /\ [][NextClassify]_vars

\* removeCells applied to a board with 0 to 9 leading rows already empty
InitRemove ==
  /\ Board \in {ClearedPrefix(N * r) : r \in 0..N}
  /\ args = [row |-> 0, col |-> 0, value |-> 0]
  /\ last = [op |-> "none", ret |-> TRUE, before |-> NewSudoku]
  /\ prev = [op |-> "none", ret |-> TRUE]
  /\ panicked = FALSE
  /\ \E seed \in Seeds : rng = NewGeneratorWithSeed(seed)
  /\ sudoku = NewSudoku
  /\ stack = <<>>
  /\ pc = "input"
  /\ fillRet = FALSE
  /\ api = [difficulty |-> Easy, num |-> 0, den |-> 1, name |-> "none"]
  /\ complete = Board
  /\ result = NewSudoku
  /\ calls = 0
  /\ UiOff

CallRemoveCells ==
  /\ pc = "input"
  /\ \E n \in RemoveCounts :
        LET made == removeCells(complete, n, rng)
        IN /\ result' = made.puzzle
           /\ rng' = made.rng
           /\ api' = [difficulty |-> Easy, num |-> n, den |-> 1,
                      name |-> "removeCells"]
  /\ pc' = "output"
  /\ UNCHANGED boardVars
  /\ UNCHANGED uiVars
  /\ UNCHANGED <<sudoku, stack, fillRet, complete, calls>>

NextRemove == CallRemoveCells

SpecRemove == InitRemove /\ [][NextRemove]_vars

(* --------------------- Sudoku objects by reference ---------------------- *)

\* heap.store[ref] is the Board of the Sudoku object (or the [9][9]int
\* array) that ref points to; references count from 1 and 0 is nil

GameSeeds == 0..MaxGameSeed

\* removeCells that clears the cells of the object it was given
AllocRemoveCellsInPlace(h, cellsToRemove, r) ==
  LET made == removeCells(h.store[h.complete], cellsToRemove, r)
  IN [heap |-> [h EXCEPT !.store[h.complete] = made.puzzle,
                         !.puzzle = h.complete],
      rng |-> made.rng]

\* removeCells: puzzle := &Sudoku{} is a new object, filled cell by cell
\* from complete and then cleared
AllocRemoveCells(h, cellsToRemove, r) ==
  LET made == removeCells(h.store[h.complete], cellsToRemove, r)
  IN [heap |-> [h EXCEPT !.store = Append(h.store, made.puzzle),
                         !.puzzle = Len(h.store) + 1],
      rng |-> made.rng]

\* NewSudokuWithPuzzle: the array is passed by value and &Sudoku{Board:
\* puzzle} is a new object holding its cells
AllocNewSudokuWithPuzzle(h) ==
  [h EXCEPT !.store = Append(h.store, NewSudokuWithPuzzle(h.store[h.array])),
            !.built = Len(h.store) + 1]

\* the boards a caller can call SetCell and ClearCell on
SudokuRefs == {heap.complete, heap.puzzle, heap.built} \ {0}

\* the caller works on one cell, with a value SetCell refuses or with one
\* it stores
InitAlias ==
  /\ heap = [store |-> <<GetSampleSolution, GetSamplePuzzle>>,
             complete |-> 1, puzzle |-> 0, array |-> 2, built |-> 0]
  /\ args \in [row : Coord, col : Coord, value : {0 - Margin, MaxValue}]
  /\ \E seed \in GameSeeds : rng = NewGeneratorWithSeed(seed)
  /\ Board = NewSudoku
  /\ last = [op |-> "none", ref |-> 0]
  /\ prev = [op |-> "none", ret |-> TRUE]
  /\ panicked = FALSE
  /\ sudoku = NewSudoku
  /\ stack = <<>>
  /\ pc = "off"
  /\ fillRet = FALSE
  /\ api = [difficulty |-> 0, num |-> 0, den |-> 1, name |-> "none"]
  /\ complete = GetSampleSolution
  /\ result = NewSudoku
  /\ calls = 0
  /\ web = WebOff
  /\ term = TermOff

\* puzzle := g.removeCells(complete, 40), the default count of createPuzzle
AliasRemoveCells ==
  /\ heap.puzzle = 0
  /\ LET made == AllocRemoveCells(heap, 40, rng)
     IN /\ heap' = made.heap
        /\ rng' = made.rng
        /\ result' = made.heap.store[made.heap.puzzle]
  /\ last' = [op |-> "removeCells", ref |-> 0]
  /\ UNCHANGED <<Board, args, prev, panicked>>
  /\ UNCHANGED <<sudoku, stack, pc, fillRet, api, complete, calls>>
  /\ UNCHANGED <<web, term>>

AliasNewSudokuWithPuzzle ==
  /\ heap.built = 0
  /\ heap' = AllocNewSudokuWithPuzzle(heap)
  /\ last' = [op |-> "NewSudokuWithPuzzle", ref |-> 0]
  /\ UNCHANGED <<Board, args, prev, panicked>>
  /\ UNCHANGED genVars
  /\ UNCHANGED <<web, term>>

\* the caller calls SetCell on one of its boards
AliasSetCell ==
  /\ \E ref \in SudokuRefs :
        /\ heap' = [heap EXCEPT !.store[ref] =
                      SetCell(heap.store[ref], args.row, args.col,
                              args.value).Board]
        /\ last' = [op |-> "SetCell", ref |-> ref]
  /\ UNCHANGED <<Board, args, prev, panicked>>
  /\ UNCHANGED genVars
  /\ UNCHANGED <<web, term>>

\* the caller calls ClearCell on one of its boards
AliasClearCell ==
  /\ \E ref \in SudokuRefs :
        /\ heap' = [heap EXCEPT !.store[ref] =
                      ClearCell(heap.store[ref], args.row, args.col).Board]
        /\ last' = [op |-> "ClearCell", ref |-> ref]
  /\ UNCHANGED <<Board, args, prev, panicked>>
  /\ UNCHANGED genVars
  /\ UNCHANGED <<web, term>>

\* the caller assigns to a cell of the array it built a board from
AliasWriteArray ==
  /\ InGrid(args.row, args.col)
  /\ heap' = [heap EXCEPT !.store[heap.array][args.row][args.col] =
                             args.value]
  /\ last' = [op |-> "array", ref |-> heap.array]
  /\ UNCHANGED <<Board, args, prev, panicked>>
  /\ UNCHANGED genVars
  /\ UNCHANGED <<web, term>>

NextAlias ==
  \/ AliasRemoveCells
  \/ AliasNewSudokuWithPuzzle
  \/ AliasSetCell
  \/ AliasClearCell
  \/ AliasWriteArray

SpecAlias == InitAlias /\ [][NextAlias]_vars

(* ------------------------------ the WebUI ------------------------------ *)

\* updateDisplay: for every non-empty cell it clears the cell, asks
\* IsValidMove for the class "invalid" and stores the value again
updateDisplay(b) ==
  [i \in Idx |-> [j \in Idx |->
     IF GetCell(b, i, j).ret # 0
     THEN LET value == GetCell(b, i, j).ret
              cleared == ClearCell(b, i, j).Board
              checked == IsValidMove(cleared, i, j, value).Board
          IN SetCell(checked, i, j, value).Board[i][j]
     ELSE b[i][j]]]

\* the fields NewWebUI(puzzle) and newGame set, selectedNumber left out (it
\* is set to 1 by NewWebUI and never read or written again)
StartedWebUI(puzzle) ==
  [sudoku |-> puzzle, originalPuzzle |-> puzzle,
   selectedRow |-> 4, selectedCol |-> 4, gameWon |-> FALSE,
   handler |-> "idle"]

InitWeb ==
  /\ web = WebOff
  /\ heap = HeapOff
  /\ term = TermOff
  /\ rng = 0
  /\ sudoku = NewSudoku
  /\ stack = <<>>
  /\ pc = "idle"
  /\ fillRet = FALSE
  /\ api = [difficulty |-> Easy, num |-> 0, den |-> 1, name |-> "none"]
  /\ complete = NewSudoku
  /\ result = NewSudoku
  /\ calls = 0
  /\ BoardOff

\* generator := game.NewGenerator(); generator.GeneratePuzzle(difficulty),
\* up to the call of fillBoard. The fields of the WebUI that the handler
\* overwrites when the puzzle is there are not kept meanwhile: nothing
\* reads them before.
WebGenerate(handler, difficulty) ==
  /\ pc = "idle"
  /\ \E seed \in GameSeeds : rng' = NewGeneratorWithSeed(seed)
  /\ api' = [difficulty |-> difficulty, num |-> 0, den |-> 1,
             name |-> "GeneratePuzzle"]
  /\ sudoku' = NewSudoku
  /\ stack' = <<>>
  /\ pc' = "enter"
  /\ web' = [handler |-> handler]
  /\ args' = [row |-> 0, col |-> 0, value |-> 0]
  /\ UNCHANGED <<fillRet, complete, result, calls>>
  /\ UNCHANGED <<Board, last, prev, panicked, heap, term>>

\* main of cmd/wasm: a Medium puzzle, then NewWebUI(puzzle)
WebMain ==
  /\ web.handler = "off"
  /\ WebGenerate("main", Medium)

\* newGame(difficulty): "easy", "medium", "hard", "expert", and Medium for
\* no argument or any other string
WebNewGame ==
  /\ web.handler = "idle"
  /\ \E difficulty \in Difficulties : WebGenerate("newGame", difficulty)

\* fillBoard has returned: createPuzzle makes the puzzle, and NewWebUI or
\* the rest of newGame sets the fields; args becomes the cell this game's
\* user is going to click, a cell of the centre row or the centre column
\* or a place next to their ends
WebStarted ==
  /\ web.handler \in {"main", "newGame"}
  /\ pc = "ret"
  /\ stack = <<>>
  /\ LET made == createPuzzle(sudoku, api.difficulty, rng)
     IN /\ complete' = sudoku
        /\ result' = made.puzzle
        /\ rng' = made.rng
        /\ web' = [StartedWebUI(made.puzzle) EXCEPT
                     !.sudoku = updateDisplay(made.puzzle)]
  /\ pc' = "idle"
  /\ args' \in {a \in [row : Coord, col : Coord, value : {0}] :
                    a.row = 4 \/ a.col = 4}
  /\ UNCHANGED <<sudoku, stack, fillRet, api, calls>>
  /\ UNCHANGED <<Board, last, prev, panicked, heap, term>>

WebFrame ==
  /\ UNCHANGED boardVars
  /\ UNCHANGED genVars
  /\ UNCHANGED <<heap, term>>

\* selectCell(row, col) on the cell of args or on the centre cell
selectCell ==
  /\ web.handler = "idle"
  /\ \E cell \in {<<args.row, args.col>>, <<4, 4>>} :
        LET row == cell[1]
            col == cell[2]
        IN IF row >= 0 /\ row < 9 /\ col >= 0 /\ col < 9
           THEN web' = [web EXCEPT !.selectedRow = row,
                                   !.selectedCol = col,
                                   !.sudoku = updateDisplay(web.sudoku)]
           ELSE UNCHANGED web
  /\ WebFrame

\* setNumber that stores the number without asking IsValidMove
setNumberNoCheck ==
  /\ web.handler = "idle"
  /\ \E number \in Values :
        IF number < 1 \/ number > 9
        THEN UNCHANGED web
        ELSE IF GetCell(web.originalPuzzle, web.selectedRow,
                        web.selectedCol).ret # 0
        THEN UNCHANGED web
        ELSE LET placed == updateDisplay(
                             SetCell(web.sudoku, web.selectedRow,
                                     web.selectedCol, number).Board)
             IN web' = [web EXCEPT !.sudoku = placed,
                                   !.gameWon = IF IsComplete(placed)
                                               THEN TRUE ELSE web.gameWon]
  /\ WebFrame

\* setNumber that does not look at originalPuzzle
setNumberAnyCell ==
  /\ web.handler = "idle"
  /\ \E number \in Values :
        IF number < 1 \/ number > 9
        THEN UNCHANGED web
        ELSE LET check == IsValidMove(web.sudoku, web.selectedRow,
                                      web.selectedCol, number)
             IN IF ~check.ret
                THEN web' = [web EXCEPT !.sudoku = check.Board]
                ELSE LET placed == updateDisplay(
                                     SetCell(check.Board, web.selectedRow,
                                             web.selectedCol, number).Board)
                     IN web' = [web EXCEPT
                                  !.sudoku = placed,
                                  !.gameWon = IF IsComplete(placed)
                                              THEN TRUE ELSE web.gameWon]
  /\ WebFrame

\* setNumber(number)
setNumber ==
  /\ web.handler = "idle"
  /\ \E number \in Values :
        IF number < 1 \/ number > 9
        THEN UNCHANGED web
        ELSE IF GetCell(web.originalPuzzle, web.selectedRow,
                        web.selectedCol).ret # 0
        THEN UNCHANGED web
        ELSE LET check == IsValidMove(web.sudoku, web.selectedRow,
                                      web.selectedCol, number)
             IN IF ~check.ret
                THEN web' = [web EXCEPT !.sudoku = check.Board]
                ELSE LET placed == updateDisplay(
                                     SetCell(check.Board, web.selectedRow,
                                             web.selectedCol, number).Board)
                     IN web' = [web EXCEPT
                                  !.sudoku = placed,
                                  !.gameWon = IF IsComplete(placed)
                                              THEN TRUE ELSE web.gameWon]
  /\ WebFrame

\* clearCell()
clearCell ==
  /\ web.handler = "idle"
  /\ IF GetCell(web.originalPuzzle, web.selectedRow, web.selectedCol).ret # 0
     THEN UNCHANGED web
     ELSE web' = [web EXCEPT !.sudoku =
                    updateDisplay(ClearCell(web.sudoku, web.selectedRow,
                                            web.selectedCol).Board)]
  /\ WebFrame

\* getSudokuState() marshals the fields and changes none
getSudokuState ==
  /\ web.handler = "idle"
  /\ UNCHANGED web
  /\ WebFrame

\* the user, on a fresh puzzle, selects one after the other every empty
\* cell but the centre cell and the cell of args and calls setNumber with
\* the value the solution has there, then selects the centre cell: each of
\* these numbers is a valid move, and the last one wins the game if it
\* fills the board
setNumberSolution ==
  /\ web.handler = "idle"
  /\ web.sudoku = web.originalPuzzle
  /\ LET left == {<<args.row, args.col>>, <<4, 4>>}
         filled == [i \in Idx |-> [j \in Idx |->
                      IF <<i, j>> \in left THEN web.sudoku[i][j]
                      ELSE complete[i][j]]]
     IN /\ filled # web.sudoku
        /\ web' = [web EXCEPT !.sudoku = updateDisplay(filled),
                              !.selectedRow = 4, !.selectedCol = 4,
                              !.gameWon = IsComplete(filled)]
  /\ WebFrame

NextWeb ==
  \/ WebMain
  \/ WebNewGame
  \/ FillEnter
  \/ FillLoop
  \/ FillReturn
  \/ WebStarted
  \/ selectCell
  \/ setNumber
  \/ clearCell
  \/ getSudokuState
  \/ setNumberSolution

SpecWeb == InitWeb /\ [][NextWeb]_vars

(* ---------------------------- the TerminalUI --------------------------- *)

ToolNumber == 0
ToolBlock == 1
ToolMove == 2

\* NewTerminalUI(sudoku): blockedNums is the set of the <<row, col, num>>
\* whose flag is true
NewTerminalUI(puzzle) ==
  [originalBoard |-> [i \in Idx |-> [j \in Idx |-> GetCell(puzzle, i, j).ret]],
   userNumbers |-> [i \in Idx |-> [j \in Idx |-> 0]],
   blockedNums |-> {},
   cursorRow |-> 4, cursorCol |-> 4,
   currentTool |-> ToolMove, selectedNum |-> 1,
   gameRunning |-> TRUE, keys |-> 0]

InitTerm ==
  /\ term = TermOff
  /\ web = WebOff
  /\ heap = HeapOff
  /\ rng = 0
  /\ sudoku = NewSudoku
  /\ stack = <<>>
  /\ pc = "idle"
  /\ fillRet = FALSE
  /\ api = [difficulty |-> Easy, num |-> 0, den |-> 1, name |-> "none"]
  /\ complete = NewSudoku
  /\ result = NewSudoku
  /\ calls = 0
  /\ BoardOff

\* main of the terminal demo: NewGenerator(), GeneratePuzzle(game.Easy), up
\* to the call of fillBoard
TermMain ==
  /\ term = TermOff
  /\ pc = "idle"
  /\ api.name = "none"
  /\ \E seed \in GameSeeds : rng' = NewGeneratorWithSeed(seed)
  /\ api' = [difficulty |-> Easy, num |-> 0, den |-> 1,
             name |-> "GeneratePuzzle"]
  /\ sudoku' = NewSudoku
  /\ stack' = <<>>
  /\ pc' = "enter"
  /\ UNCHANGED <<fillRet, complete, result, calls>>
  /\ UNCHANGED boardVars
  /\ UNCHANGED uiVars

\* fillBoard has returned: createPuzzle, then ui.NewTerminalUI(puzzle)
TermStarted ==
  /\ term = TermOff
  /\ pc = "ret"
  /\ stack = <<>>
  /\ LET made == createPuzzle(sudoku, api.difficulty, rng)
     IN /\ complete' = sudoku
        /\ result' = made.puzzle
        /\ rng' = made.rng
        /\ term' = NewTerminalUI(made.puzzle)
  /\ pc' = "idle"
  /\ UNCHANGED <<sudoku, stack, fillRet, api, calls>>
  /\ UNCHANGED boardVars
  /\ UNCHANGED <<heap, web>>

\* handleInput reads one key while the game runs
TermKey(after) ==
  /\ term # TermOff
  /\ term.gameRunning
  /\ term.keys < MaxKeys
  /\ term' = [after EXCEPT !.keys = term.keys + 1]
  /\ UNCHANGED boardVars
  /\ UNCHANGED genVars
  /\ UNCHANGED <<heap, web>>

moveCursor(ui, deltaRow, deltaCol) ==
  LET newRow == ui.cursorRow + deltaRow
      newCol == ui.cursorCol + deltaCol
  IN IF newRow >= 0 /\ newRow < 9 /\ newCol >= 0 /\ newCol < 9
     THEN [ui EXCEPT !.cursorRow = newRow, !.cursorCol = newCol]
     ELSE ui

cycleTool(ui) ==
  [ui EXCEPT !.currentTool =
     CASE ui.currentTool = ToolMove -> ToolNumber
       [] ui.currentTool = ToolNumber -> ToolBlock
       [] ui.currentTool = ToolBlock -> ToolMove]

cycleToolReverse(ui) ==
  [ui EXCEPT !.currentTool =
     CASE ui.currentTool = ToolMove -> ToolBlock
       [] ui.currentTool = ToolNumber -> ToolMove
       [] ui.currentTool = ToolBlock -> ToolNumber]

cycleNumber(ui) ==
  LET next == ui.selectedNum + 1
  IN [ui EXCEPT !.selectedNum = IF next > 9 THEN 1 ELSE next]

\* useTool that does not look at originalBoard
useToolAnyCell(ui) ==
  LET row == ui.cursorRow
      col == ui.cursorCol
      mark == <<row, col, ui.selectedNum>>
  IN CASE ui.currentTool = ToolNumber ->
            [ui EXCEPT !.userNumbers[row][col] = ui.selectedNum,
                       !.blockedNums = ui.blockedNums \ {mark}]
       [] ui.currentTool = ToolBlock ->
            LET blocked == mark \notin ui.blockedNums
            IN [ui EXCEPT
                  !.blockedNums = IF blocked THEN ui.blockedNums \cup {mark}
                                  ELSE ui.blockedNums \ {mark},
                  !.userNumbers[row][col] =
                     IF blocked /\ ui.userNumbers[row][col] = ui.selectedNum
                     THEN 0 ELSE ui.userNumbers[row][col]]
       [] OTHER -> ui

useTool(ui) ==
  LET row == ui.cursorRow
      col == ui.cursorCol
      mark == <<row, col, ui.selectedNum>>
  IN IF ui.originalBoard[row][col] # 0 THEN ui
     ELSE CASE ui.currentTool = ToolNumber ->
            [ui EXCEPT !.userNumbers[row][col] = ui.selectedNum,
                       !.blockedNums = ui.blockedNums \ {mark}]
       [] ui.currentTool = ToolBlock ->
            LET blocked == mark \notin ui.blockedNums
            IN [ui EXCEPT
                  !.blockedNums = IF blocked THEN ui.blockedNums \cup {mark}
                                  ELSE ui.blockedNums \ {mark},
                  !.userNumbers[row][col] =
                     IF blocked /\ ui.userNumbers[row][col] = ui.selectedNum
                     THEN 0 ELSE ui.userNumbers[row][col]]
       [] OTHER -> ui

clearCurrentCell(ui) ==
  LET row == ui.cursorRow
      col == ui.cursorCol
  IN IF ui.originalBoard[row][col] # 0 THEN ui
     ELSE [ui EXCEPT !.userNumbers[row][col] = 0,
                     !.blockedNums = {m \in ui.blockedNums :
                                        ~(m[1] = row /\ m[2] = col
                                          /\ m[3] >= 1 /\ m[3] <= 9)}]

\* the keys of handleInput
KeySpace == TermKey(useTool(term))

KeyEsc == TermKey([term EXCEPT !.gameRunning = FALSE])

KeyMove ==
  \E delta \in {<<0 - 1, 0>>, <<1, 0>>, <<0, 0 - 1>>, <<0, 1>>} :
     TermKey(moveCursor(term, delta[1], delta[2]))

KeyQ == TermKey(cycleTool(term))

KeyE == TermKey(cycleToolReverse(term))

KeyF == TermKey(cycleNumber(term))

KeyC == TermKey(clearCurrentCell(term))

KeyDigit == \E digit \in 1..9 : TermKey([term EXCEPT !.selectedNum = digit])

NextTerm ==
  \/ TermMain
  \/ FillEnter
  \/ FillLoop
  \/ FillReturn
  \/ TermStarted
  \/ KeySpace
  \/ KeyEsc
  \/ KeyMove
  \/ KeyQ
  \/ KeyE
  \/ KeyF
  \/ KeyC
  \/ KeyDigit

SpecTerm == InitTerm /\ [][NextTerm]_vars

(* ----------------------- properties of the Board ----------------------- *)

\* the Sudoku rule, stated on cells: (i, j) and (r, c) are different cells
\* of one row, one column or one box
SameBox(i, j, r, c) == (i \div 3 = r \div 3) /\ (j \div 3 = c \div 3)
Sees(i, j, r, c) ==
  /\ <<i, j>> # <<r, c>>
  /\ (i = r \/ j = c \/ SameBox(i, j, r, c))
HeldElsewhere(b, r, c, v) ==
  \E i \in 0..8 : \E j \in 0..8 : Sees(i, j, r, c) /\ b[i][j] = v
NoDuplicate(b) ==
  \A r \in 0..8 : \A c \in 0..8 :
     b[r][c] # 0 => ~HeldElsewhere(b, r, c, b[r][c])

PosInRange == args.row \in 0..8 /\ args.col \in 0..8
ValueInRange == args.value \in 0..9

\* C2: for an in-bounds cell and a value in 1..9, IsValidMove returns false
\* exactly when the value is held by another cell of the same row, column
\* or box; whatever the cell itself holds does not change the answer.
C2_IsValidMoveIffHeldElsewhere ==
  (last.op = "IsValidMove" /\ PosInRange /\ args.value \in 1..9) =>
     /\ (last.ret = FALSE) <=>
           HeldElsewhere(last.before, args.row, args.col, args.value)
     /\ \A w \in 0..9 :
           IsValidMove([last.before EXCEPT ![args.row][args.col] = w],
                       args.row, args.col, args.value).ret = last.ret

\* IsValidMove accepted a value that the cell itself already holds
C2_Witness ==
  /\ last.op = "IsValidMove" /\ PosInRange /\ args.value \in 1..9
  /\ last.before[args.row][args.col] = args.value
  /\ last.ret = TRUE

\* C3: a call of IsValidMove, with any integers and whatever it returns,
\* leaves the grid as it was before the call.
C3_IsValidMoveKeepsBoard ==
  last.op = "IsValidMove" => Board = last.before

\* IsValidMove rejected a value different from what the cell holds
C3_Witness ==
  /\ last.op = "IsValidMove" /\ PosInRange /\ args.value \in 1..9
  /\ last.before[args.row][args.col] # args.value
  /\ last.ret = FALSE

\* C7: SetCell returns true exactly when row and col are in 0..8 and value
\* in 0..9; it then stores the value, conflict or not, and changes no
\* other cell.
C7_SetCellContract ==
  last.op = "SetCell" =>
     /\ (last.ret = TRUE) <=> (PosInRange /\ ValueInRange)
     /\ (last.ret = TRUE) =>
           \A i \in 0..8 : \A j \in 0..8 :
              Board[i][j] = IF <<i, j>> = <<args.row, args.col>>
                            THEN args.value ELSE last.before[i][j]

\* SetCell stored a value that duplicates another cell of its row, column
\* or box, on a board that had no duplicate
C7_Witness ==
  /\ last.op = "SetCell" /\ last.ret = TRUE
  /\ NoDuplicate(last.before)
  /\ args.value # 0
  /\ HeldElsewhere(Board, args.row, args.col, args.value)
  /\ Board[args.row][args.col] = args.value

\* C8: GetCell called right after SetCell with the same in-range row, col
\* and a value in 0..9 returns that value; GetCell with a row or col
\* outside 0..8 returns -1.
C8_RoundTrip ==
  last.op = "GetCell" =>
     /\ (prev.op = "SetCell" /\ PosInRange /\ ValueInRange) =>
           last.ret = args.value
     /\ ~PosInRange => last.ret = -1

\* GetCell read back a value that SetCell had just stored over something
\* else
C8_Witness ==
  /\ last.op = "GetCell" /\ prev.op = "SetCell" /\ prev.ret = TRUE
  /\ PosInRange
  /\ args.value \notin {0, GetSamplePuzzle[args.row][args.col],
                         GetSampleSolution[args.row][args.col]}
  /\ last.ret = args.value

\* C9: when SetCell or ClearCell returns false the grid is the grid before
\* the call.
C9_UnchangedOnError ==
  (last.op \in {"SetCell", "ClearCell"} /\ last.ret = FALSE) =>
     Board = last.before

\* SetCell refused an out-of-range value for a cell of the grid
C9_Witness ==
  /\ last.op = "SetCell" /\ last.ret = FALSE
  /\ PosInRange /\ ~ValueInRange
  /\ last.before[args.row][args.col] # 0

\* C10: no Board operation indexes the grid outside 0..8, whatever integers
\* it is given; bad arguments are answered by false, -1 or an empty list.
C10_NoPanic ==
  /\ ~panicked
  /\ (last.op \in {"SetCell", "ClearCell", "IsEmpty"} /\ ~PosInRange) =>
        last.ret = FALSE
  /\ (last.op \in {"SetCell", "IsValidMove"} /\ ~ValueInRange) =>
        last.ret = FALSE
  /\ (last.op = "IsValidMove" /\ ~PosInRange) => last.ret = FALSE
  /\ (last.op = "GetCell" /\ ~PosInRange) => last.ret = -1
  /\ (last.op \in {"GetRowConflicts", "GetColConflicts", "GetBoxConflicts"}
        /\ ~PosInRange) => last.ret = <<>>

\* a conflict query past the last row was answered by the empty list
C10_Witness ==
  /\ last.op = "GetBoxConflicts"
  /\ args.row > 8
  /\ ~panicked
  /\ last.ret = <<>>

(* --------------------- properties of the Generator --------------------- *)

Cells == (0..8) \X (0..8)
EmptyCount(b) == Cardinality({p \in Cells : b[p[1]][p[2]] = 0})
\* the cells of row u, of column u and of box u (boxes numbered row-major)
RowCells(u) == {p \in Cells : p[1] = u}
ColCells(u) == {p \in Cells : p[2] = u}
BoxCells(u) == {p \in Cells : (p[1] \div 3) * 3 + (p[2] \div 3) = u}
Units == {RowCells(u) : u \in 0..8} \cup {ColCells(u) : u \in 0..8}
           \cup {BoxCells(u) : u \in 0..8}
\* every cell filled, and each of 1..9 exactly once in each row, column
\* and box
Solved(b) ==
  /\ \A p \in Cells : b[p[1]][p[2]] \in 1..9
  /\ \A unit \in Units : \A v \in 1..9 :
        Cardinality({p \in unit : b[p[1]][p[2]] = v}) = 1

IsPuzzleCall == api.name \in {"GeneratePuzzle", "GeneratePuzzleWithEmptyRatio"}

\* C1: the board GenerateComplete returns, to its caller or to the puzzle
\* call that made it, has all 81 cells non-zero, satisfies IsValid() and
\* holds each of 1..9 exactly once in every row, column and box.
C1_GenerateCompleteSolved ==
  /\ (pc = "ret" /\ stack = <<>>) => (Solved(sudoku) /\ IsValid(sudoku))
  /\ (pc = "idle" /\ api.name = "GenerateComplete") =>
        (Solved(result) /\ IsValid(result))

\* GenerateComplete has returned a board
C1_Witness ==
  /\ pc = "idle" /\ api.name = "GenerateComplete" /\ calls = 1
  /\ result # NewSudoku

C5_CluesMatchSolution ==
  (pc = "idle" /\ IsPuzzleCall) =>
     /\ Solved(complete)
     /\ \A p \in Cells :
           result[p[1]][p[2]] # 0 =>
              result[p[1]][p[2]] = complete[p[1]][p[2]]

\* a puzzle call has returned a board with both clues and empty cells
C5_Witness ==
  /\ pc = "idle" /\ IsPuzzleCall
  /\ \E p \in Cells : result[p[1]][p[2]] # 0
  /\ \E p \in Cells : result[p[1]][p[2]] = 0

(* -------------------- further properties of the Board ------------------ *)

Elems(seq) == {seq[k] : k \in 1..Len(seq)}
Filled(b) == \A p \in Cells : b[p[1]][p[2]] # 0

\* C11: a second ClearCell with the same row and col leaves the grid the
\* first one made; for a cell of the grid that grid has 0 in the cell and
\* every other cell as before.
C11_ClearCellIdempotent ==
  last.op = "ClearCell" =>
     /\ prev.op = "ClearCell" => Board = last.before
     /\ PosInRange =>
           /\ last.ret = TRUE
           /\ \A p \in Cells :
                 Board[p[1]][p[2]] = IF p = <<args.row, args.col>>
                                     THEN 0 ELSE last.before[p[1]][p[2]]
     /\ ~PosInRange => Board = last.before

\* ClearCell was called twice in a row on a cell it had to clear
C11_Witness ==
  /\ last.op = "ClearCell" /\ prev.op = "ClearCell" /\ PosInRange
  /\ Board[args.row][args.col] = 0
  /\ Board \notin {NewSudoku, GetSamplePuzzle, GetSampleSolution}

\* C12: IsValid returns true exactly when no two different cells of one
\* row, column or box hold the same non-zero value; empty cells never make
\* it false, and the call does not change the grid.
C12_IsValidIffNoDuplicate ==
  last.op = "IsValid" =>
     /\ (last.ret = TRUE) <=> NoDuplicate(last.before)
     /\ Board = last.before

\* IsValid returned false on a board that also has empty cells
C12_Witness ==
  /\ last.op = "IsValid" /\ last.ret = FALSE
  /\ \E p \in Cells : Board[p[1]][p[2]] = 0
  /\ ~NoDuplicate(Board)

\* C13: IsComplete returns true exactly when no cell is 0 and no value is
\* duplicated in a row, column or box.
C13_IsCompleteIffFilledAndValid ==
  last.op = "IsComplete" =>
     /\ (last.ret = TRUE) <=> (Filled(last.before) /\ NoDuplicate(last.before))
     /\ (last.ret = TRUE) <=> (Filled(last.before) /\ IsValid(last.before))

\* IsComplete returned false on a full board with a duplicated value
C13_Witness ==
  /\ last.op = "IsComplete" /\ last.ret = FALSE
  /\ Filled(Board)
  /\ ~NoDuplicate(Board)

C19_SampleSolutionComplete ==
  /\ (last.op = "IsComplete"
        /\ last.before = NewSudokuWithPuzzle(GetSampleSolution)) =>
        last.ret = TRUE
  /\ \A p \in Cells :
        GetSamplePuzzle[p[1]][p[2]] # 0 =>
           GetSamplePuzzle[p[1]][p[2]] = GetSampleSolution[p[1]][p[2]]
  /\ Filled(GetSampleSolution)

\* IsComplete answered true on the sample solution
C19_Witness ==
  /\ last.op = "IsComplete" /\ last.ret = TRUE
  /\ Board = NewSudokuWithPuzzle(GetSampleSolution)

(* ------------------ further properties of the Generator ---------------- *)

IsRatioCall == api.name = "GeneratePuzzleWithEmptyRatio"

\* C14: GeneratePuzzleWithEmptyRatio(0.0) returns a complete board with no
\* cell removed and GeneratePuzzleWithEmptyRatio(1.0) a board of 81 zeros;
\* a ratio below 0 gives what 0.0 gives and a ratio above 1 what 1.0 gives.
C14_RatioZeroAndOne ==
  (pc = "idle" /\ IsRatioCall) =>
     /\ api.num <= 0 => (IsComplete(result) /\ result = complete)
     /\ api.num >= api.den =>
           (\A p \in Cells : result[p[1]][p[2]] = 0) /\ Solved(complete)

\* a ratio above 1 has returned the all-empty board
C14_Witness ==
  /\ pc = "idle" /\ IsRatioCall
  /\ api.num > api.den
  /\ EmptyCount(result) = 81

\* C15 as stated: for a ratio in [0, 1] the puzzle has round(81 * ratio)
\* empty cells, the nearest integer (halves up).
C15_RoundedCount ==
  (pc = "idle" /\ IsRatioCall /\ api.num >= 0 /\ api.num <= api.den) =>
     EmptyCount(result) = (2 * 81 * api.num + api.den) \div (2 * api.den)

\* C15 amended: for a ratio in [0, 1] the puzzle has floor(81 * ratio)
\* empty cells: int() drops the fraction of 81 * ratio.
C15_TruncatedCount ==
  (pc = "idle" /\ IsRatioCall /\ api.num >= 0 /\ api.num <= api.den) =>
     EmptyCount(result) = (81 * api.num) \div api.den

\* a ratio whose product with 81 has a fraction above one half has been
\* served
C15_Witness ==
  /\ pc = "idle" /\ IsRatioCall
  /\ api.num > 0 /\ api.num < api.den
  /\ 2 * ((81 * api.num) % api.den) > api.den
  /\ EmptyCount(result) = (81 * api.num) \div api.den

\* C17: the search GenerateComplete starts on the empty board comes to its
\* return, and the outermost fillBoard call returns true, never false.
C17_FillTerminatesWithTrue ==
  /\ []((pc = "ret" /\ stack = <<>>) => fillRet = TRUE)
  /\ ((pc = "enter" /\ stack = <<>>)
        ~> (pc = "ret" /\ stack = <<>> /\ fillRet = TRUE))

\* the outermost fillBoard call has returned true on a full board
C17_Witness ==
  /\ pc = "ret" /\ stack = <<>> /\ fillRet = TRUE
  /\ \A p \in Cells : sudoku[p[1]][p[2]] # 0

(* ---------------- properties of the utility functions ------------------ *)

\* C18: a ratio r is classified Easy for r <= 0.45, Medium for
\* 0.45 < r <= 0.60, Hard for 0.60 < r <= 0.75 and Expert above; for a board
\* with e empty cells that is Easy for e <= 36, Medium for 37..48, Hard for
\* 49..60 and Expert for 61..81.
C18_DifficultyBuckets ==
  /\ api.name \in {"GetEmptyRatio", "GetDifficultyFromEmptyRatio"} =>
        /\ api.difficulty \in {Easy, Medium, Hard, Expert}
        /\ api.difficulty = Easy <=> 100 * api.num <= 45 * api.den
        /\ api.difficulty = Medium <=>
              (45 * api.den < 100 * api.num /\ 100 * api.num <= 60 * api.den)
        /\ api.difficulty = Hard <=>
              (60 * api.den < 100 * api.num /\ 100 * api.num <= 75 * api.den)
        /\ api.difficulty = Expert <=> 75 * api.den < 100 * api.num
  /\ api.name = "GetEmptyRatio" =>
        LET e == EmptyCount(Board)
        IN /\ api.num = e /\ api.den = 81
           /\ e \in 0..36 => api.difficulty = Easy
           /\ e \in 37..48 => api.difficulty = Medium
           /\ e \in 49..60 => api.difficulty = Hard
           /\ e \in 61..81 => api.difficulty = Expert

\* a board with 37 empty cells, one more than the last Easy count, has been
\* classified
C18_Witness ==
  /\ api.name = "GetEmptyRatio"
  /\ EmptyCount(Board) = 37
  /\ api.difficulty = Medium

\* C20: removeCells(complete, n) returns the input with exactly
\* min(max(n, 0), non-empty cells of the input) more cells cleared, every
\* other cell as in the input; for n <= 0 it returns a copy of the input.
C20_RemoveCount ==
  api.name = "removeCells" =>
     LET nonEmpty == 81 - EmptyCount(complete)
         asked == IF api.num < 0 THEN 0 ELSE api.num
         want == IF asked < nonEmpty THEN asked ELSE nonEmpty
     IN /\ EmptyCount(result) = EmptyCount(complete) + want
        /\ \A p \in Cells :
              result[p[1]][p[2]] \in {0, complete[p[1]][p[2]]}
        /\ api.num <= 0 => result = complete

\* removeCells cleared fewer cells than the input had left, on an input
\* that already had empty cells
C20_Witness ==
  /\ api.name = "removeCells"
  /\ EmptyCount(complete) > 0
  /\ api.num > 0 /\ api.num < 81 - EmptyCount(complete)
  /\ EmptyCount(result) = EmptyCount(complete) + api.num

(* ----------------- properties of the backtracking search --------------- *)

InFill == pc \in {"enter", "loop", "ret"}

\* the cells in row-major order, numbered 0..80
CellNo(p) == p[1] * 9 + p[2]

\* the board that holds, for every call in frames, the candidate that call
\* has placed in its cell, and nothing else
PlacedBoard(frames) ==
  [i \in 0..8 |-> [j \in 0..8 |->
     IF \E k \in 1..Len(frames) : frames[k].row = i /\ frames[k].col = j
     THEN LET k == CHOOSE m \in 1..Len(frames) :
                      frames[m].row = i /\ frames[m].col = j
          IN frames[k].numbers[frames[k].i]
     ELSE 0]]

\* the calls that are in their loop after placing a candidate: every call
\* on the stack, but for the innermost one while it is between candidates
PlacedFrames ==
  IF pc = "loop" THEN SubSeq(stack, 1, Len(stack) - 1) ELSE stack

\* C21: at every call, loop step and return of fillBoard started on the
\* empty board, the board passes IsValid(), no non-zero value occurs twice
\* in a row, column or box, and the non-empty cells are a prefix of the
\* row-major cell order.
C21_SearchKeepsBoardValid ==
  InFill =>
     /\ IsValid(sudoku)
     /\ NoDuplicate(sudoku)
     /\ \E k \in 0..81 :
           \A p \in Cells : sudoku[p[1]][p[2]] # 0 <=> CellNo(p) < k

\* the search is 20 calls deep on a board with 20 cells filled, after a
\* call has returned false
C21_Witness ==
  /\ pc = "enter"
  /\ Len(stack) = 20
  /\ EmptyCount(sudoku) = 61
  /\ stack[20].i > 1

\* C22: a call of fillBoard that returns false leaves the board it was
\* entered with: the board a call is entered with holds the candidates
\* placed by the calls above it and nothing else, the board is that board
\* again whenever the call is between candidates and when it has returned
\* false; when a call returns true the board is full.
C22_BacktrackUndo ==
  /\ pc = "enter" => sudoku = PlacedBoard(stack)
  /\ pc = "loop" =>
        /\ sudoku = PlacedBoard(SubSeq(stack, 1, Len(stack) - 1))
        /\ sudoku[stack[Len(stack)].row][stack[Len(stack)].col] = 0
  /\ (pc = "ret" /\ fillRet = FALSE) => sudoku = PlacedBoard(stack)
  /\ (pc = "ret" /\ fillRet = TRUE) => Filled(sudoku)

\* a call three levels down has returned false after calls below it placed
\* and cleared their cells
C22_Witness ==
  /\ pc = "ret" /\ fillRet = FALSE
  /\ Len(stack) >= 3
  /\ EmptyCount(sudoku) = 81 - Len(stack)

\* C23 as stated: at every point the calls that have placed a value are as
\* many as the non-empty cells, and at most 81.
C23_FramesEqualCells ==
  InFill =>
     /\ Len(stack) <= 81
     /\ Len(PlacedFrames) = 81 - EmptyCount(sudoku)

\* C23: the stack of fillBoard calls that have placed a value is never
\* deeper than the number of non-empty cells, which is at most 81; the two
\* are equal until a call has returned true, after which the calls return
\* one by one over the full board.
C23_DepthBound ==
  InFill =>
     /\ Len(stack) <= 81
     /\ Len(PlacedFrames) <= 81 - EmptyCount(sudoku)
     /\ ~(pc = "ret" /\ fillRet = TRUE) =>
           Len(PlacedFrames) = 81 - EmptyCount(sudoku)
     /\ (pc = "ret" /\ fillRet = TRUE) => EmptyCount(sudoku) = 0

\* the search is 81 calls deep
C23_Witness ==
  /\ pc = "enter"
  /\ Len(stack) = 81
  /\ EmptyCount(sudoku) = 0

(* ------------------- properties of objects and copies ------------------ *)

\* C24: removeCells leaves the board it is given as it was and returns a
\* new object, NewSudokuWithPuzzle returns a new object too, and from then
\* on SetCell, ClearCell or an array assignment changes only the object it
\* is applied to: the complete board, the puzzle, the array and the board
\* built from the array share no cells.
C24_NoSharedState ==
  /\ [](\A a \in {heap.complete, heap.puzzle, heap.array, heap.built} \ {0} :
          Cardinality({f \in {"complete", "puzzle", "array", "built"} :
                          heap[f] = a}) = 1)
  /\ [][/\ \A ref \in 1..Len(heap.store) :
              ref # last'.ref => heap'.store[ref] = heap.store[ref]
        /\ last'.op = "removeCells" =>
              /\ heap'.store[heap'.complete] = heap.store[heap.complete]
              /\ heap'.puzzle # heap'.complete]_vars

\* the puzzle removeCells returned has been written to in a cell where the
\* complete board still holds the solution's value
C24_Witness ==
  /\ heap.puzzle # 0
  /\ last.op = "SetCell" /\ last.ref = heap.puzzle
  /\ InGrid(args.row, args.col)
  /\ heap.store[heap.puzzle][args.row][args.col]
       # heap.store[heap.complete][args.row][args.col]

(* -------------------- properties of returned puzzles ------------------- *)

\* C29: the puzzle GeneratePuzzle or GeneratePuzzleWithEmptyRatio returns
\* passes IsValid() and can be completed: filling its empty cells from the
\* complete board it was derived from gives a board for which IsComplete()
\* is true.
C29_PuzzleValidAndSolvable ==
  (pc = "idle" /\ IsPuzzleCall) =>
     LET completion == [i \in Idx |-> [j \in Idx |->
                          IF result[i][j] = 0 THEN complete[i][j]
                          ELSE result[i][j]]]
     IN /\ IsValid(result)
        /\ NoDuplicate(result)
        /\ IsComplete(completion)
        /\ Solved(completion)

\* a puzzle with more than 40 empty cells has been returned
C29_Witness ==
  /\ pc = "idle" /\ IsPuzzleCall
  /\ EmptyCount(result) > 40
  /\ IsValid(result)

(* ------------------------ properties of the WebUI ---------------------- *)

WebIdle == web.handler = "idle"

\* C25: between two newGame events originalPuzzle is the puzzle the game
\* began with, and every cell that is non-zero in originalPuzzle holds the
\* same value in the current board.
C25_GivenCellsFixed ==
  WebIdle =>
     /\ web.originalPuzzle = result
     /\ \A p \in Cells :
           web.originalPuzzle[p[1]][p[2]] # 0 =>
              web.sudoku[p[1]][p[2]] = web.originalPuzzle[p[1]][p[2]]

\* a given cell is selected while the user has a number of his own on the
\* board
C25_Witness ==
  /\ WebIdle
  /\ web.originalPuzzle[web.selectedRow][web.selectedCol] # 0
  /\ web.sudoku # web.originalPuzzle

C27_WonOnlyIfComplete ==
  WebIdle => (web.gameWon => IsComplete(web.sudoku))

\* C27, the part that holds: gameWon is set by the event that completes the
\* board and is false on every board that has never been complete
C27_WonWhenCompleted ==
  [][(WebIdle /\ web'.handler = "idle") =>
       /\ (~IsComplete(web.sudoku) /\ IsComplete(web'.sudoku)) => web'.gameWon
       /\ (~web.gameWon /\ web'.gameWon) => IsComplete(web'.sudoku)]_vars

(* --------------------- properties of the TerminalUI -------------------- *)

TermRunning == term # TermOff

\* C28: after any sequence of keys a given cell has no user number and no
\* blocked mark, and the number the user placed in a cell is not blocked
\* in that cell.
C28_MarksInvariant ==
  TermRunning =>
     \A p \in Cells :
        /\ term.originalBoard[p[1]][p[2]] # 0 =>
              /\ term.userNumbers[p[1]][p[2]] = 0
              /\ \A n \in 0..9 : <<p[1], p[2], n>> \notin term.blockedNums
        /\ term.userNumbers[p[1]][p[2]] # 0 =>
              <<p[1], p[2], term.userNumbers[p[1]][p[2]]>>
                 \notin term.blockedNums

\* the user has placed a number in a cell in which another number is
\* blocked
C28_Witness ==
  /\ TermRunning
  /\ \E m \in term.blockedNums :
        /\ term.userNumbers[m[1]][m[2]] # 0
        /\ term.userNumbers[m[1]][m[2]] # m[3]

====
